---- MODULE Spec2Model ----
(***************************************************************************)
(* update_repo.py: regenerate Packages / Packages.bz2 of a flat Debian     *)
(* repository and refresh the MD5Sum entries of its Release file.          *)
(*                                                                         *)
(* Text is a sequence of characters, a character being a one-character     *)
(* string (EAcute stands for the code point U+00E9, which UTF-8 encodes in *)
(* two bytes).  Bytes are numbers in 0..255.  One run of main() is a       *)
(* sequential process: pc is its position in main().                       *)
(***************************************************************************)
EXTENDS Integers, Sequences, FiniteSets, TLC

VARIABLES
    pc,                \* position of main(): start, build, bz2, release, report, done, failed
    debs_dir,          \* root/debs: [exists, entries: file name -> archive]
    files,             \* root/Packages, root/Packages.bz2, root/Release: [exists, content]
    orig,              \* the three files as they were when main() started
    todo,              \* build_packages: the sorted list of .deb paths being iterated
    built,             \* build_packages: one record per .deb processed so far
    packages_content,  \* main: the text build_packages returned
    reported,          \* main: the numbers printed at the end of the run
    error              \* the exception that ended the run ("" while none)

vars == <<pc, debs_dir, files, orig, todo, built, packages_content, reported, error>>

-----------------------------------------------------------------------------
(* Characters, code points, UTF-8 *)

EAcute == "U+00E9"

\* The grave accent, code point 0x60.
Grave == "U+0060"

Ascii ==
    <<" ", "!", "\"", "#", "$", "%", "&", "'", "(", ")", "*", "+", ",", "-", ".", "/",
      "0", "1", "2", "3", "4", "5", "6", "7", "8", "9", ":", ";", "<", "=", ">", "?",
      "@", "A", "B", "C", "D", "E", "F", "G", "H", "I", "J", "K", "L", "M", "N", "O",
      "P", "Q", "R", "S", "T", "U", "V", "W", "X", "Y", "Z", "[", "\\", "]", "^", "_",
      Grave, "a", "b", "c", "d", "e", "f", "g", "h", "i", "j", "k", "l", "m", "n", "o",
      "p", "q", "r", "s", "t", "u", "v", "w", "x", "y", "z", "{", "|", "}", "~">>

Chars == {Ascii[i] : i \in 1..Len(Ascii)} \cup {"\t", "\n", "\r", EAcute}

\* The code point of a character: the order of str comparison and the input of UTF-8.
OrdMap ==
    [c \in Chars |->
        CASE c = "\t" -> 9
          [] c = "\n" -> 10
          [] c = "\r" -> 13
          [] c = EAcute -> 233
          [] OTHER -> 31 + (CHOOSE i \in 1..Len(Ascii) : Ascii[i] = c)]

Ord(c) == OrdMap[c]

\* str.encode("utf-8") of one character (code points below 0x800).
Utf8(c) ==
    IF Ord(c) < 128 THEN <<Ord(c)>>
    ELSE <<192 + (Ord(c) \div 64), 128 + (Ord(c) % 64)>>

\* "".join(parts), b"".join(parts): the parts one after the other.
RECURSIVE concat(_)
concat(parts) ==
    IF parts = <<>> THEN <<>>
    ELSE IF Len(parts) = 1 THEN parts[1]
    ELSE LET half == Len(parts) \div 2 IN
         concat(SubSeq(parts, 1, half)) \o concat(SubSeq(parts, half + 1, Len(parts)))

\* str.encode("utf-8")
encode(text) == concat([i \in 1..Len(text) |-> Utf8(text[i])])

-----------------------------------------------------------------------------
(* str methods *)

IsSpace(c) == c \in {" ", "\t", "\n", "\r"}

IsLineBreak(c) == c \in {"\n", "\r"}

RECURSIVE LStrip(_)
LStrip(s) == IF s # <<>> /\ IsSpace(Head(s)) THEN LStrip(Tail(s)) ELSE s

RECURSIVE RStrip(_)
RStrip(s) ==
    IF s # <<>> /\ IsSpace(s[Len(s)]) THEN RStrip(SubSeq(s, 1, Len(s) - 1)) ELSE s

Strip(s) == RStrip(LStrip(s))

Min(S) == CHOOSE m \in S : \A o \in S : m <= o

Max(S) == CHOOSE m \in S : \A o \in S : m >= o

\* str.find for a single character, 1-based; 0 when it does not occur.
Find(s, c) ==
    LET at == {i \in 1..Len(s) : s[i] = c} IN IF at = {} THEN 0 ELSE Min(at)

\* str.rfind for a single character, 1-based; 0 when it does not occur.
RFind(s, c) ==
    LET at == {i \in 1..Len(s) : s[i] = c} IN IF at = {} THEN 0 ELSE Max(at)

StartsWith(s, p) == Len(s) >= Len(p) /\ SubSeq(s, 1, Len(p)) = p

Drop(s, n) == SubSeq(s, n + 1, Len(s))

\* str.splitlines(): a final line break opens no further line; "\r\n" is one break.
RECURSIVE splitlines(_)
splitlines(text) ==
    IF text = <<>> THEN <<>>
    ELSE LET brk == {i \in 1..Len(text) : IsLineBreak(text[i])} IN
         IF brk = {} THEN <<text>>
         ELSE LET i == Min(brk)
                  j == IF text[i] = "\r" /\ i < Len(text) /\ text[i + 1] = "\n"
                       THEN i + 1 ELSE i
              IN  <<SubSeq(text, 1, i - 1)>> \o splitlines(Drop(text, j))

\* str.split(sep) for a one-character separator: always at least one piece.
RECURSIVE split(_, _)
split(s, sep) ==
    LET i == Find(s, sep) IN
    IF i = 0 THEN <<s>> ELSE <<SubSeq(s, 1, i - 1)>> \o split(Drop(s, i), sep)

\* sep.join(parts)
RECURSIVE join(_, _)
join(sep, parts) ==
    IF parts = <<>> THEN <<>>
    ELSE IF Len(parts) = 1 THEN parts[1]
    ELSE parts[1] \o sep \o join(sep, Tail(parts))

\* str.count(sub): the number of non-overlapping occurrences.
RECURSIVE CountFrom(_, _, _)
CountFrom(s, sub, from) ==
    LET at == {i \in from..(Len(s) - Len(sub) + 1) : SubSeq(s, i, i + Len(sub) - 1) = sub} IN
    IF at = {} THEN 0 ELSE 1 + CountFrom(s, sub, Min(at) + Len(sub))

count(s, sub) == CountFrom(s, sub, 1)

Digits == <<"0", "1", "2", "3", "4", "5", "6", "7", "8", "9", "a", "b", "c", "d", "e", "f">>

\* str(n) for n >= 0
RECURSIVE str(_)
str(n) == IF n < 10 THEN <<Digits[n + 1]>> ELSE str(n \div 10) \o <<Digits[(n % 10) + 1]>>

\* str < str: by code point, a proper prefix first.
RECURSIVE StrLess(_, _)
StrLess(a, b) ==
    IF b = <<>> THEN FALSE
    ELSE IF a = <<>> THEN TRUE
    ELSE IF Head(a) = Head(b) THEN StrLess(Tail(a), Tail(b))
    ELSE Ord(Head(a)) < Ord(Head(b))

-----------------------------------------------------------------------------
(* hashlib, bz2, pathlib *)

\* The sum over i in lo..hi of (i + 1) * (bytes[i] + 1), modulo 2^16.
RECURSIVE WeightedSum(_, _, _)
WeightedSum(bytes, lo, hi) ==
    IF lo > hi THEN 0
    ELSE IF lo = hi THEN ((lo + 1) * (bytes[lo] + 1)) % 65536
    ELSE LET mid == (lo + hi) \div 2 IN
         (WeightedSum(bytes, lo, mid) + WeightedSum(bytes, mid + 1, hi)) % 65536

\* hashlib.md5(bytes).hexdigest(): a fixed-width lower-case hex digest of the bytes.
\* The digest function is a 16-bit position-weighted checksum standing for MD5.
md5hex(bytes) ==
    LET h == WeightedSum(bytes, 1, Len(bytes)) IN
    <<Digits[(h \div 4096) + 1], Digits[((h \div 256) % 16) + 1],
      Digits[((h \div 16) % 16) + 1], Digits[(h % 16) + 1]>>

\* Where the runs of equal bytes start, in order.
RunStarts(bytes) ==
    SelectSeq([i \in 1..Len(bytes) |-> i], LAMBDA i : i = 1 \/ bytes[i] # bytes[i - 1])

\* bz2.compress(bytes): the stream magic "BZh", then the bytes run-length coded
\* (standing for the block coding of bzip2: a lossless, non-identity encoding).
RunLengthCode(bytes) ==
    LET starts == RunStarts(bytes)
        end(k) == IF k < Len(starts) THEN starts[k + 1] ELSE Len(bytes) + 1
    IN  concat([k \in 1..Len(starts) |-> <<end(k) - starts[k], bytes[starts[k]]>>])

bz2_compress(bytes) == <<66, 90, 104>> \o RunLengthCode(bytes)

\* PurePath.suffix: from the last dot of the name, unless the name starts or ends there.
suffix(name) ==
    LET i == RFind(name, ".") IN
    IF 1 < i /\ i < Len(name) THEN SubSeq(name, i, Len(name)) ELSE <<>>

\* sorted(paths) of one directory: ascending by name.
RECURSIVE sorted(_)
sorted(S) ==
    IF S = {} THEN <<>>
    ELSE LET m == CHOOSE m \in S : \A o \in S \ {m} : StrLess(m, o)
         IN  <<m>> \o sorted(S \ {m})

-----------------------------------------------------------------------------
(* String literals of update_repo.py *)

Filename == <<"F", "i", "l", "e", "n", "a", "m", "e">>

Size == <<"S", "i", "z", "e">>

MD5sum == <<"M", "D", "5", "s", "u", "m">>

MD5SumHeader == <<"M", "D", "5", "S", "u", "m", ":">>

ControlTarPrefix == <<"c", "o", "n", "t", "r", "o", "l", ".", "t", "a", "r", ".">>

ControlFile == <<"c", "o", "n", "t", "r", "o", "l">>

DebSuffix == <<".", "d", "e", "b">>

DebsPrefix == <<"d", "e", "b", "s", "/">>

PackageMarker == <<"P", "a", "c", "k", "a", "g", "e", ":", " ">>

-----------------------------------------------------------------------------
(* extract_control_fields *)

\* line 12: the first listed member whose name starts with "control.tar." (<<>>: None)
control_member(listing) ==
    LET at == {i \in 1..Len(listing) : StartsWith(listing[i], ControlTarPrefix)} IN
    IF at = {} THEN <<>> ELSE listing[Min(at)]

\* m.name.split("/")[-1]
Basename(name) == LET parts == split(name, "/") IN parts[Len(parts)]

\* line 24: the index of the first regular file called control (0: None)
tar_member(tar) ==
    LET at == {i \in 1..Len(tar) : tar[i].isfile /\ Basename(tar[i].name) = ControlFile} IN
    IF at = {} THEN 0 ELSE Min(at)

\* lines 31-41, the loop over the lines.  entries holds tuples, copies of last made
\* when the field line was read; last (<<>>: None) is the list the loop goes on
\* mutating, so what a continuation line adds to last never reaches entries.
RECURSIVE parse_lines(_, _, _)
parse_lines(lines, entries, last) ==
    IF lines = <<>> THEN entries
    ELSE LET raw_line == Head(lines)
             rest == Tail(lines)
         IN  IF raw_line = <<>> THEN parse_lines(rest, entries, last)
             ELSE IF IsSpace(raw_line[1]) /\ last # <<>>
                  THEN parse_lines(rest, entries,
                                   <<last[1], last[2] \o <<"\n">> \o raw_line>>)
             ELSE IF Find(raw_line, ":") = 0 THEN parse_lines(rest, entries, last)
             ELSE LET i == Find(raw_line, ":")
                      kv == <<Strip(SubSeq(raw_line, 1, i - 1)), Strip(Drop(raw_line, i))>>
                  IN  parse_lines(rest, Append(entries, kv), kv)

\* The loop splitting each field line at its last colon instead of its first.
RECURSIVE parse_lines_rsplit(_, _, _)
parse_lines_rsplit(lines, entries, last) ==
    IF lines = <<>> THEN entries
    ELSE LET raw_line == Head(lines)
             rest == Tail(lines)
         IN  IF raw_line = <<>> THEN parse_lines_rsplit(rest, entries, last)
             ELSE IF IsSpace(raw_line[1]) /\ last # <<>>
                  THEN parse_lines_rsplit(rest, entries,
                                          <<last[1], last[2] \o <<"\n">> \o raw_line>>)
             ELSE IF Find(raw_line, ":") = 0 THEN parse_lines_rsplit(rest, entries, last)
             ELSE LET i == RFind(raw_line, ":")
                      kv == <<Strip(SubSeq(raw_line, 1, i - 1)), Strip(Drop(raw_line, i))>>
                  IN  parse_lines_rsplit(rest, Append(entries, kv), kv)

parse_control_rsplit(control_text) ==
    parse_lines_rsplit(splitlines(control_text), <<>>, <<>>)

\* lines 29-42
parse_control(control_text) == parse_lines(splitlines(control_text), <<>>, <<>>)

\* The whole function: [raised: the exception ("" when it returns), entries].
extract_control_fields(deb) ==
    IF ~deb.ar THEN [raised |-> "CalledProcessError", entries |-> <<>>]
    ELSE IF control_member(deb.listing) = <<>>
         THEN [raised |-> "RuntimeError: No control.tar.* found", entries |-> <<>>]
    ELSE IF tar_member(deb.tar) = 0
         THEN [raised |-> "RuntimeError: control file not found", entries |-> <<>>]
    ELSE [raised |-> "", entries |-> parse_control(deb.tar[tar_member(deb.tar)].text)]

-----------------------------------------------------------------------------
(* format_entry *)

\* The filter forgetting the Size field of the control data.
filtered_keeps_size(entries, filename, size, md5) ==
    SelectSeq(entries, LAMBDA e : e[1] \notin {Filename, MD5sum})
        \o <<<<Filename, filename>>, <<Size, str(size)>>, <<MD5sum, md5>>>>

\* lines 45-48
filtered(entries, filename, size, md5) ==
    SelectSeq(entries, LAMBDA e : e[1] \notin {Filename, Size, MD5sum})
        \o <<<<Filename, filename>>, <<Size, str(size)>>, <<MD5sum, md5>>>>

\* lines 52-57: the lines one (key, val) pair contributes
entry_lines(key, val) ==
    IF Find(val, "\n") # 0
    THEN LET parts == split(val, "\n") IN <<key \o <<":", " ">> \o Head(parts)>> \o Tail(parts)
    ELSE <<key \o <<":", " ">> \o val>>

RECURSIVE all_lines(_)
all_lines(pairs) ==
    IF pairs = <<>> THEN <<>>
    ELSE entry_lines(Head(pairs)[1], Head(pairs)[2]) \o all_lines(Tail(pairs))

\* lines 44-58
format_entry(entries, filename, size, md5) ==
    join(<<"\n">>, all_lines(filtered(entries, filename, size, md5))) \o <<"\n", "\n">>

-----------------------------------------------------------------------------
(* build_packages *)

\* The paths in descending order.
RECURSIVE reversed(_)
reversed(s) == IF s = <<>> THEN <<>> ELSE Append(reversed(Tail(s)), Head(s))

deb_paths_descending(entries) ==
    reversed(sorted({name \in DOMAIN entries : suffix(name) = DebSuffix}))

\* line 63: the paths the loop visits
deb_paths(entries) == sorted({name \in DOMAIN entries : suffix(name) = DebSuffix})

\* lines 65-69: the stanza of one .deb, given its parsed control fields
package_entry(name, deb, control) ==
    format_entry(control, DebsPrefix \o name, Len(deb.data), md5hex(deb.data))

Stanzas(records) == [i \in 1..Len(records) |-> records[i].stanza]

-----------------------------------------------------------------------------
(* update_release *)

\* The size counted in characters instead of encoded bytes.
size_in_characters(content) == Len(content)

\* line 76
size_packages(content) == Len(encode(content))

\* lines 89-92
md5_block(content, bz2_bytes) ==
    <<" ">> \o md5hex(encode(content)) \o <<" ">> \o str(size_packages(content))
        \o <<" ", "P", "a", "c", "k", "a", "g", "e", "s", "\n">>
    \o <<" ">> \o md5hex(bz2_bytes) \o <<" ">> \o str(Len(bz2_bytes))
        \o <<" ", "P", "a", "c", "k", "a", "g", "e", "s", ".", "b", "z", "2", "\n">>

\* lines 79-86: the lines up to and including the first whose strip() is "MD5Sum:",
\* or all the lines and an added "MD5Sum:" when there is none
header_lines(lines) ==
    LET at == {i \in 1..Len(lines) : Strip(lines[i]) = MD5SumHeader} IN
    IF at = {} THEN Append(lines, MD5SumHeader) ELSE SubSeq(lines, 1, Min(at))

\* list.index(x), 1-based; 0 where Python raises ValueError
index(list, x) ==
    LET at == {i \in 1..Len(list) : list[i] = x} IN IF at = {} THEN 0 ELSE Min(at)

\* lines 72-93: [raised, text: what is written to Release]
update_release(release_text, content, bz2_bytes) ==
    LET hl == header_lines(splitlines(release_text))
        at == index(hl, MD5SumHeader)
    IN  IF at = 0 THEN [raised |-> "ValueError", text |-> <<>>]
        ELSE [raised |-> "",
              text |-> join(<<"\n">>, SubSeq(hl, 1, at - 1))
                           \o <<"\n">> \o MD5SumHeader \o <<"\n">>
                           \o md5_block(content, bz2_bytes)]

-----------------------------------------------------------------------------
(* The repositories main() is run on *)

MaxLines == 3

MaxEntries == 3

MaxReleaseLines == 3

\* A text file of the given lines, each ended by a newline.
TextOf(lines) == concat([i \in 1..Len(lines) |-> lines[i] \o <<"\n">>])

\* The lines control files are made of: two fields (one with a second colon and a
\* two-byte character), an indented line with a colon, an indented line without,
\* an empty line, a line without colon, and the three recomputed fields.
ControlLines ==
    { <<"P", "a", "c", "k", "a", "g", "e", ":", " ", "a">>,
      <<"A", "u", "t", "h", "o", "r", ":", " ", EAcute, ":", "b">>,
      <<" ", "K", " ", ":", " ", "v", " ">>,
      <<" ", "c", "o", "n", "t">>,
      <<>>,
      <<"j", "u", "n", "k">>,
      <<"S", "i", "z", "e", ":", " ", "9">>,
      <<"F", "i", "l", "e", "n", "a", "m", "e", ":", " ", "f">>,
      <<"M", "D", "5", "s", "u", "m", ":", " ", "0">> }

DebianBinary == <<"d", "e", "b", "i", "a", "n", "-", "b", "i", "n", "a", "r", "y">>

ControlTarGz == <<"c", "o", "n", "t", "r", "o", "l", ".", "t", "a", "r", ".", "g", "z">>

DataTarXz == <<"d", "a", "t", "a", ".", "t", "a", "r", ".", "x", "z">>

Md5sumsPath == <<".", "/", "m", "d", "5", "s", "u", "m", "s">>

ControlPath == <<".", "/", "c", "o", "n", "t", "r", "o", "l">>

Listing == <<DebianBinary, ControlTarGz, DataTarXz>>

\* An archive in debs/ as ar and tarfile show it: whether ar reads it, the member
\* names ar lists, the members of its control tarball (text: the decoded content),
\* and the bytes of the .deb file itself.  Deb: a well-formed package whose control
\* file holds the text.
Deb(control_text) ==
    [ar |-> TRUE,
     listing |-> Listing,
     tar |-> <<[name |-> Md5sumsPath, isfile |-> TRUE, text |-> <<"0">>],
               [name |-> ControlPath, isfile |-> TRUE, text |-> control_text]>>,
     data |-> <<33, 60>> \o encode(control_text)]

\* A file ar cannot read.
NotAnArchive == [ar |-> FALSE, listing |-> <<>>, tar |-> <<>>, data |-> <<0>>]

NoControlTar ==
    [ar |-> TRUE, listing |-> <<DebianBinary, DataTarXz>>, tar |-> <<>>,
     data |-> <<33, 60, 1>>]

\* The control tarball holds a directory called control and no such file.
NoControlFile ==
    [ar |-> TRUE,
     listing |-> Listing,
     tar |-> <<[name |-> ControlPath, isfile |-> FALSE, text |-> <<>>],
               [name |-> Md5sumsPath, isfile |-> TRUE, text |-> <<"0">>]>>,
     data |-> <<33, 60, 2>>]

\* Package: a
PackageA == Deb(TextOf(<<<<"P", "a", "c", "k", "a", "g", "e", ":", " ", "a">>>>))

\* Package: b / Author: U+00E9:b
PackageB ==
    Deb(TextOf(<<<<"P", "a", "c", "k", "a", "g", "e", ":", " ", "b">>,
                 <<"A", "u", "t", "h", "o", "r", ":", " ", EAcute, ":", "b">>>>))

FilePool == {PackageA, PackageB, NoControlTar}

ADeb == <<"a", ".", "d", "e", "b">>

\* a.deb, b.deb, B.deb, a.txt, .deb (a hidden file without suffix), c.deb.
NamePool ==
    { ADeb,
      <<"b", ".", "d", "e", "b">>,
      <<"B", ".", "d", "e", "b">>,
      <<"a", ".", "t", "x", "t">>,
      <<".", "d", "e", "b">>,
      <<"c", ".", "d", "e", "b", ".">> }

Directories ==
    UNION {[S -> FilePool] : S \in {T \in SUBSET NamePool : Cardinality(T) <= MaxEntries}}

\* The lines Release files are made of: a field, the header (exact, indented,
\* with a trailing space), an entry for Packages, the header of another section.
ReleaseLines ==
    { <<"S", "u", "i", "t", "e", ":", " ", "s">>,
      <<"M", "D", "5", "S", "u", "m", ":">>,
      <<" ", "M", "D", "5", "S", "u", "m", ":">>,
      <<"M", "D", "5", "S", "u", "m", ":", " ">>,
      <<" ", "0", " ", "1", " ", "P", "a", "c", "k", "a", "g", "e", "s">>,
      <<"S", "H", "A", "2", "5", "6", ":">> }

File(content) == [exists |-> TRUE, content |-> content]

Absent == [exists |-> FALSE, content |-> <<>>]

\* Suite: s / MD5Sum: / an entry for Packages
DefaultRelease ==
    File(TextOf(<<<<"S", "u", "i", "t", "e", ":", " ", "s">>,
                  MD5SumHeader,
                  <<" ", "0", " ", "1", " ", "P", "a", "c", "k", "a", "g", "e", "s">>>>))

OneDeb(deb) == [exists |-> TRUE, entries |-> [n \in {ADeb} |-> deb]]

\* Packages as an earlier run left it ("old").
StalePackages == File(<<111, 108, 100, 10>>)

\* main() is about to run on a repository with this debs directory and Release file.
Start(dir, release) ==
    /\ pc = "start"
    /\ debs_dir = dir
    /\ files = [Packages |-> StalePackages,
                Packages_bz2 |-> File(bz2_compress(StalePackages.content)),
                Release |-> release]
    /\ orig = files
    /\ todo = <<>>
    /\ built = <<>>
    /\ packages_content = <<>>
    /\ reported = <<>>
    /\ error = ""

\* Three families of repositories: directories of several entries, one package of
\* any control text, and Release files of any lines; and the ones main() fails on.
Init ==
    \/ Start(OneDeb(PackageA), Absent)
    \/ Start([exists |-> FALSE, entries |-> <<>>], DefaultRelease)
    \/ \E d \in {NotAnArchive, NoControlFile} : Start(OneDeb(d), DefaultRelease)
    \/ \E d \in Directories : Start([exists |-> TRUE, entries |-> d], DefaultRelease)
    \/ \E k \in 0..MaxLines : \E ls \in [1..k -> ControlLines] :
           Start(OneDeb(Deb(TextOf(ls))), DefaultRelease)
    \/ \E k \in 0..MaxReleaseLines : \E ls \in [1..k -> ReleaseLines] :
           Start(OneDeb(PackageA), File(TextOf(ls)))

-----------------------------------------------------------------------------
(* main *)

Raise(e) ==
    /\ pc' = "failed"
    /\ error' = e

\* lines 100-103: the debs directory is missing
MissingDebs ==
    /\ pc = "start"
    /\ ~debs_dir.exists
    /\ Raise("SystemExit: Missing debs directory")
    /\ UNCHANGED <<debs_dir, files, orig, todo, built, packages_content, reported>>

\* lines 100-105, 61-63: build_packages lists and sorts the .deb paths
ScanDir ==
    /\ pc = "start"
    /\ debs_dir.exists
    /\ todo' = deb_paths(debs_dir.entries)
    /\ pc' = "build"
    /\ UNCHANGED <<debs_dir, files, orig, built, packages_content, reported, error>>

NextDeb == todo[Len(built) + 1]

\* lines 64-69: one iteration of the loop of build_packages
BuildEntry ==
    /\ pc = "build"
    /\ Len(built) < Len(todo)
    /\ LET deb == debs_dir.entries[NextDeb]
           got == extract_control_fields(deb)
       IN  /\ got.raised = ""
           /\ built' = Append(built,
                  [name |-> NextDeb,
                   control |-> got.entries,
                   stanza |-> package_entry(NextDeb, deb, got.entries)])
    /\ UNCHANGED <<pc, debs_dir, files, orig, todo, packages_content, reported, error>>

\* lines 11-14, 24-26: extract_control_fields raises, and so do build_packages and main
ExtractRaises ==
    /\ pc = "build"
    /\ Len(built) < Len(todo)
    /\ LET got == extract_control_fields(debs_dir.entries[NextDeb])
       IN  /\ got.raised # ""
           /\ Raise(got.raised)
    /\ UNCHANGED <<debs_dir, files, orig, todo, built, packages_content, reported>>

\* lines 70, 105-109: build_packages returns and main writes Packages
WritePackages ==
    /\ pc = "build"
    /\ Len(built) = Len(todo)
    /\ packages_content' = concat(Stanzas(built))
    /\ files' = [files EXCEPT !.Packages = File(encode(packages_content'))]
    /\ pc' = "bz2"
    /\ UNCHANGED <<debs_dir, orig, todo, built, reported, error>>

\* line 110
WriteBz2 ==
    /\ pc = "bz2"
    /\ files' = [files EXCEPT !.Packages_bz2 = File(bz2_compress(encode(packages_content)))]
    /\ pc' = "release"
    /\ UNCHANGED <<debs_dir, orig, todo, built, packages_content, reported, error>>

\* lines 112-114
ReleaseMissing ==
    /\ pc = "release"
    /\ ~files.Release.exists
    /\ Raise("SystemExit: Release file not found")
    /\ UNCHANGED <<debs_dir, files, orig, todo, built, packages_content, reported>>

Updated ==
    update_release(files.Release.content, packages_content, files.Packages_bz2.content)

\* lines 115, 72-93
UpdateRelease ==
    /\ pc = "release"
    /\ files.Release.exists
    /\ LET done == Updated IN
       /\ done.raised = ""
       /\ files' = [files EXCEPT !.Release = File(done.text)]
    /\ pc' = "report"
    /\ UNCHANGED <<debs_dir, orig, todo, built, packages_content, reported, error>>

\* line 88: header_lines.index("MD5Sum:") raises ValueError, before Release is written
UpdateReleaseRaises ==
    /\ pc = "release"
    /\ files.Release.exists
    /\ Updated.raised # ""
    /\ Raise(Updated.raised)
    /\ UNCHANGED <<debs_dir, files, orig, todo, built, packages_content, reported>>

\* lines 117-120
Report ==
    /\ pc = "report"
    /\ reported' = [entries |-> count(packages_content, PackageMarker),
                    size |-> Len(encode(packages_content)),
                    bz2_size |-> Len(files.Packages_bz2.content)]
    /\ pc' = "done"
    /\ UNCHANGED <<debs_dir, files, orig, todo, built, packages_content, error>>

Next ==
    \/ MissingDebs
    \/ ScanDir
    \/ BuildEntry
    \/ ExtractRaises
    \/ WritePackages
    \/ WriteBz2
    \/ ReleaseMissing
    \/ UpdateRelease
    \/ UpdateReleaseRaises
    \/ Report

Spec == Init /\ [][Next]_vars

-----------------------------------------------------------------------------
(* Properties *)

\* The control text of the package a built record was made from.
ControlText(name) ==
    LET deb == debs_dir.entries[name] IN deb.tar[tar_member(deb.tar)].text

ControlLinesOf(name) == splitlines(ControlText(name))

\* A field line: not empty, holds a colon, and is no continuation line, which is a
\* line starting with whitespace after at least one field has been seen.
RECURSIVE IsFieldLine(_, _)
IsFieldLine(lines, i) ==
    /\ lines[i] # <<>>
    /\ \E p \in 1..Len(lines[i]) : lines[i][p] = ":"
    /\ ~(IsSpace(lines[i][1]) /\ \E j \in 1..(i - 1) : IsFieldLine(lines, j))

IsContinuationLine(lines, i) ==
    /\ lines[i] # <<>>
    /\ IsSpace(lines[i][1])
    /\ \E j \in 1..(i - 1) : IsFieldLine(lines, j)

FieldLineIndexes(lines) ==
    SelectSeq([i \in 1..Len(lines) |-> i], LAMBDA i : IsFieldLine(lines, i))

FirstColon(line) ==
    CHOOSE p \in 1..Len(line) : line[p] = ":" /\ \A q \in 1..(p - 1) : line[q] # ":"

Trimmed(s) ==
    LET keep == {p \in 1..Len(s) : ~IsSpace(s[p])} IN
    IF keep = {} THEN <<>>
    ELSE SubSeq(s, CHOOSE a \in keep : \A o \in keep : a <= o,
                   CHOOSE b \in keep : \A o \in keep : b >= o)

KeyOf(line) == Trimmed(SubSeq(line, 1, FirstColon(line) - 1))

ValueOf(line) == Trimmed(SubSeq(line, FirstColon(line) + 1, Len(line)))

\* The (key, value) pairs the field lines of a control text stand for.
ExpectedFields(lines) ==
    LET at == FieldLineIndexes(lines) IN
    [k \in 1..Len(at) |-> <<KeyOf(lines[at[k]]), ValueOf(lines[at[k]])>>]

\* C6: extract_control_fields returns exactly one (key, value) entry for each
\* non-empty line that holds a ':' and is not a continuation line, in order of
\* appearance; key is the text before the first ':' and value the text after it,
\* both stripped; empty and colon-less lines give no entry, duplicate keys are kept.
C6_OneEntryPerFieldLine ==
    \A k \in 1..Len(built) :
        built[k].control = ExpectedFields(ControlLinesOf(built[k].name))

\* A parsed text with a line that starts with whitespace and holds a colon yet is a
\* continuation line, with a key that occurs twice and a value that holds a colon.
C6_Witness ==
    \E k \in 1..Len(built) :
        LET lines == ControlLinesOf(built[k].name)
            control == built[k].control
        IN  /\ \E i \in 1..Len(lines) :
                  /\ IsContinuationLine(lines, i)
                  /\ \E p \in 1..Len(lines[i]) : lines[i][p] = ":"
            /\ \E a, b \in 1..Len(control) : a # b /\ control[a][1] = control[b][1]
            /\ Len(lines) > Len(control)

\* The field a continuation line belongs to: the number of field lines before it.
FieldBefore(lines, i) == Cardinality({j \in 1..(i - 1) : IsFieldLine(lines, j)})

\* The continuation lines of the k-th field, in order.
ContinuationsOf(lines, k) ==
    SelectSeq([i \in 1..Len(lines) |-> i],
              LAMBDA i : IsContinuationLine(lines, i) /\ FieldBefore(lines, i) = k)

RECURSIVE WithContinuations(_, _, _)
WithContinuations(value, lines, at) ==
    IF at = <<>> THEN value
    ELSE WithContinuations(value \o <<"\n">> \o lines[Head(at)], lines, Tail(at))

StanzaLines(stanza) ==
    LET parts == split(stanza, "\n") IN SubSeq(parts, 1, Len(parts) - 2)

\* C1: each line that begins with whitespace and comes after a field line is
\* appended, after a newline, to the value of the preceding field in the list
\* extract_control_fields returns, and format_entry emits it directly below that
\* field's line of the stanza.
C1_ContinuationLinesKept ==
    \A k \in 1..Len(built) :
        LET lines == ControlLinesOf(built[k].name)
            control == built[k].control
            out == StanzaLines(built[k].stanza)
        IN  \A f \in 1..Len(control) :
                /\ control[f][2] =
                       WithContinuations(ValueOf(lines[FieldLineIndexes(lines)[f]]),
                                         lines, ContinuationsOf(lines, f))
                /\ control[f][1] \notin {Filename, Size, MD5sum} =>
                       \A c \in 1..Len(ContinuationsOf(lines, f)) :
                           \E o \in 2..Len(out) :
                               /\ out[o] = lines[ContinuationsOf(lines, f)[c]]
                               /\ out[o - 1] =
                                      IF c = 1
                                      THEN control[f][1] \o <<":", " ">>
                                               \o ValueOf(lines[FieldLineIndexes(lines)[f]])
                                      ELSE lines[ContinuationsOf(lines, f)[c - 1]]

NameOfLine(line) == SubSeq(line, 1, Find(line, ":") - 1)

OtherFields(control) == SelectSeq(control, LAMBDA e : e[1] \notin {Filename, Size, MD5sum})

\* C3: the stanza of a package holds exactly one field named Filename, one named
\* Size and one named MD5sum; they are its last three fields, in that order, with
\* the values debs/<file name>, the byte length of the .deb and the MD5 hex digest
\* of its bytes; fields of those names in the control data are discarded and all
\* other fields keep their relative order.
C3_RecomputedFieldsLast ==
    \A k \in 1..Len(built) :
        LET out == StanzaLines(built[k].stanza)
            n == Len(out)
            deb == debs_dir.entries[built[k].name]
            others == OtherFields(built[k].control)
        IN  /\ n = Len(others) + 3
            /\ out[n - 2] = Filename \o <<":", " ">> \o DebsPrefix \o built[k].name
            /\ out[n - 1] = Size \o <<":", " ">> \o str(Len(deb.data))
            /\ out[n] = MD5sum \o <<":", " ">> \o md5hex(deb.data)
            /\ \A r \in {Filename, Size, MD5sum} :
                   Cardinality({i \in 1..n : NameOfLine(out[i]) = r}) = 1
            /\ \A i \in 1..Len(others) :
                   out[i] = others[i][1] \o <<":", " ">> \o others[i][2]

\* A package whose control data names a recomputed field between two other fields.
C3_Witness ==
    \E k \in 1..Len(built) :
        LET control == built[k].control IN
        /\ Len(control) = 3
        /\ control[2][1] \in {Filename, Size, MD5sum}
        /\ control[1][1] \notin {Filename, Size, MD5sum}
        /\ control[3][1] \notin {Filename, Size, MD5sum}
        /\ control[1][1] # control[3][1]

\* build_packages has returned.
ContentBuilt == pc \in {"bz2", "release", "report", "done"}

EndsWithOneBlankLine(stanza) ==
    LET n == Len(stanza) IN
    /\ n >= 3
    /\ stanza[n] = "\n"
    /\ stanza[n - 1] = "\n"
    /\ stanza[n - 2] # "\n"

\* C5: the Packages content is the concatenation of exactly one stanza per entry of
\* debs/ whose suffix is .deb, in ascending order of path; other entries contribute
\* nothing, each stanza ends with exactly one blank line, and an empty directory
\* yields an empty content.
C5_OneStanzaPerDebSorted ==
    ContentBuilt =>
        LET debs == {n \in DOMAIN debs_dir.entries :
                        /\ Len(n) > 4
                        /\ SubSeq(n, Len(n) - 3, Len(n)) = <<".", "d", "e", "b">>}
        IN  /\ Len(built) = Cardinality(debs)
            /\ {built[k].name : k \in 1..Len(built)} = debs
            /\ \A k \in 1..(Len(built) - 1) : StrLess(built[k].name, built[k + 1].name)
            /\ packages_content = concat([k \in 1..Len(built) |-> built[k].stanza])
            /\ \A k \in 1..Len(built) :
                   /\ EndsWithOneBlankLine(built[k].stanza)
                   /\ \E p \in 1..Len(built[k].stanza) :
                          SubSeq(built[k].stanza, p, p + Len(built[k].name) - 1) = built[k].name
            /\ (DOMAIN debs_dir.entries = {} => packages_content = <<>>)

\* A directory of two packages and something that is no package.
C5_Witness ==
    /\ pc = "done"
    /\ Len(built) = 2
    /\ Cardinality(DOMAIN debs_dir.entries) = 3

PackagesName == <<"P", "a", "c", "k", "a", "g", "e", "s">>

PackagesBz2Name == <<"P", "a", "c", "k", "a", "g", "e", "s", ".", "b", "z", "2">>

\* The line of a checksum section for a file of these bytes.
ReleaseEntry(bytes, file_name) ==
    <<" ">> \o md5hex(bytes) \o <<" ">> \o str(Len(bytes)) \o <<" ">> \o file_name

\* C4: after a run that completes, Packages.bz2 is the bz2 compression of exactly
\* the bytes of Packages, and the MD5Sum section of Release lists exactly two
\* entries, for Packages and then Packages.bz2, with the MD5 digest and byte length
\* of the two files as they are on disk.
C4_GeneratedFilesAgree ==
    pc = "done" =>
        LET lines == splitlines(files.Release.content)
            n == Len(lines)
        IN  /\ files.Packages.exists /\ files.Packages_bz2.exists /\ files.Release.exists
            /\ files.Packages.content = encode(packages_content)
            /\ files.Packages_bz2.content = bz2_compress(files.Packages.content)
            /\ n >= 3
            /\ lines[n - 2] = MD5SumHeader
            /\ \A i \in 1..(n - 3) : lines[i] # MD5SumHeader
            /\ lines[n - 1] = ReleaseEntry(files.Packages.content, PackagesName)
            /\ lines[n] = ReleaseEntry(files.Packages_bz2.content, PackagesBz2Name)

\* A completed run whose Packages holds a character that UTF-8 encodes in two bytes.
C4_Witness ==
    /\ pc = "done"
    /\ \E p \in 1..Len(packages_content) : packages_content[p] = EAcute
    /\ Len(files.Packages.content) > Len(packages_content)

RECURSIVE IsSubsequence(_, _)
IsSubsequence(a, b) ==
    IF a = <<>> THEN TRUE
    ELSE IF b = <<>> THEN FALSE
    ELSE IF Head(a) = Head(b) THEN IsSubsequence(Tail(a), Tail(b))
    ELSE IsSubsequence(a, Tail(b))

EndsWith(s, e) == Len(s) >= Len(e) /\ SubSeq(s, Len(s) - Len(e) + 1, Len(s)) = e

\* The index of the MD5Sum: header of a Release file (0: none).
HeaderAt(lines) ==
    LET at == {i \in 1..Len(lines) : Trimmed(lines[i]) = MD5SumHeader} IN
    IF at = {} THEN 0 ELSE CHOOSE i \in at : \A o \in at : i <= o

\* Line i lies in the section under the header: only indented lines between them.
InSection(lines, h, i) ==
    /\ h # 0
    /\ i > h
    /\ \A j \in (h + 1)..i : lines[j] # <<>> /\ IsSpace(lines[j][1])

IsChecksumEntry(lines, h, i) ==
    /\ InSection(lines, h, i)
    /\ \/ EndsWith(lines[i], <<" ", "P", "a", "c", "k", "a", "g", "e", "s">>)
       \/ EndsWith(lines[i], <<" ", "P", "a", "c", "k", "a", "g", "e", "s", ".", "b", "z", "2">>)

\* Every line but the header and the entries for Packages and Packages.bz2 under it.
OtherLines(lines) ==
    LET h == HeaderAt(lines) IN
    SelectSeq([i \in 1..Len(lines) |-> i],
              LAMBDA i : i # h /\ ~IsChecksumEntry(lines, h, i))

\* C2: every line of Release other than the checksum entries for Packages and
\* Packages.bz2 under the MD5Sum: header is present, unchanged and in the same
\* order, in the Release file after the update.
C2_OtherLinesKept ==
    pc \in {"report", "done"} =>
        LET before == splitlines(orig.Release.content)
            at == OtherLines(before)
        IN  IsSubsequence([k \in 1..Len(at) |-> before[at[k]]],
                          splitlines(files.Release.content))

NonEmpty(lines) == SelectSeq(lines, LAMBDA line : line # <<>>)

\* C7: update_release finishes without raising for every Release content, whether
\* it has no MD5Sum: line, an exact one or one with whitespace around it, and the
\* file it writes consists (empty lines aside) of the lines before the header, a
\* single MD5Sum: line and the two checksum entries.
C7_UpdateReleaseSucceeds ==
    /\ error # "ValueError"
    /\ pc \in {"report", "done"} =>
           LET before == splitlines(orig.Release.content)
               h == HeaderAt(before)
               kept == IF h = 0 THEN before ELSE SubSeq(before, 1, h - 1)
           IN  NonEmpty(splitlines(files.Release.content)) =
                   NonEmpty(kept) \o <<MD5SumHeader,
                             ReleaseEntry(files.Packages.content, PackagesName),
                             ReleaseEntry(files.Packages_bz2.content, PackagesBz2Name)>>

\* C8: the number of Packages entries main reports equals the number of stanzas of
\* Packages, the number of .deb files processed.
C8_ReportedEntriesAreStanzas ==
    pc = "done" => reported.entries = Len(built)

\* C9: when main ends with an error, Packages, Packages.bz2 and Release are all
\* exactly as they were before the run.
C9_FailedRunChangesNothing ==
    pc = "failed" => files = orig

====
